---- MODULE Spec2Model ----
(***************************************************************************)
(* State-machine model of src/fields1e.py: the charge list, the three      *)
(* visibility flags, the two matplotlib callbacks (onclick, onkeypress)    *)
(* and the figure that plot_field last drew.                               *)
(*                                                                         *)
(* Numbers.  Coordinates are integers in units of 0.01 data units, so the  *)
(* hit radius 0.3 is 30 and the mask radius 0.22 is 22; distances are      *)
(* compared through their squares.  Magnitudes are integers in units of    *)
(* 1/One, so that int(abs(q) * 16) is (16 * |q|) \div One.                  *)
(***************************************************************************)
EXTENDS Integers, Sequences, FiniteSets

VARIABLES
    charges,                    \* line 167: list of (q, cx, cy)
    show_field_lines,           \* line 9
    show_equipotential_lines,   \* line 10
    show_equipotential_map,     \* line 11
    event,                      \* the event the last callback was called with
    dialog,                     \* the askfloat dialog of the last callback
    figure,                     \* what the last plot_field run drew
    plots                       \* plot_field runs made by the last callback

vars == <<charges, show_field_lines, show_equipotential_lines,
          show_equipotential_map, event, dialog, figure, plots>>

flags == <<show_field_lines, show_equipotential_lines, show_equipotential_map>>

----------------------------------------------------------------------------
(* Bounds and input alphabets *)

MaxCharges == 2

\* Magnitude 1 (line 55) in the fixed-point unit of the model.
One == 32

HitRadius == 30

MaskRadius == 22

\* np.hypot(dx, dy) ** 2
hypot2(dx, dy) == dx * dx + dy * dy

\* Click positions inside the axes.  (0,0)-(20,0) and (20,0)-(18,24) are
\* nearer than 0.3, (0,0)-(18,24) is at exactly 0.3.
ClickPoints == {<<0, 0>>, <<20, 0>>, <<18, 24>>}

\* <<event.button, event.key>>: left, shift + left, middle, right, shift + right.
Gestures == {<<1, "None">>, <<1, "shift">>, <<2, "None">>, <<3, "None">>,
             <<3, "shift">>}

\* Python's None, and a float x as <<x>>: what simpledialog.askfloat returns.
None == <<>>

\* 0.0 and -3/32 (where 16*|q| = 1.5)
DialogValues == {0, -3}

AskFloatResults == {None} \cup {<<v>> : v \in DialogValues}

PressedKeys == {"1", "2", "3", "c", "s", "x"}

\* Sample of the 1200 x 1200 mesh of plot_field: points at distance 0, 0.2,
\* exactly 0.22, 0.23 and exactly 0.3 of (0,0), and one far from everything.
Grid == {<<0, 0>>, <<20, 0>>, <<22, 0>>, <<23, 0>>, <<18, 24>>, <<-700, 300>>}

ClickEvents ==
    {[name |-> "button_press_event", inaxes |-> TRUE, button |-> g[1],
      key |-> g[2], xdata |-> p[1], ydata |-> p[2]] :
        g \in Gestures, p \in ClickPoints}
    \cup
    {[name |-> "button_press_event", inaxes |-> FALSE, button |-> g[1],
      key |-> g[2]] : g \in {<<1, "None">>}}

KeyEvents == [name : {"key_press_event"}, key : PressedKeys]

NoDialog == [index |-> 0, new_q |-> None]

----------------------------------------------------------------------------
(* compute_field: the validity mask (lines 17, 19-26, 32-34) *)

\* Faulty variant of OutsideMask: r >= 0.22.
OutsideMask_inclusive(dx, dy) == hypot2(dx, dy) >= MaskRadius * MaskRadius

\* r > 0.22 with r = sqrt(dx**2 + dy**2) + 1e-20: in float64 the 1e-20 is
\* absorbed unless the square root is 0, where r = 1e-20 is not above 0.22.
OutsideMask(dx, dy) == hypot2(dx, dy) > MaskRadius * MaskRadius

RECURSIVE mask_loop(_, _, _)
mask_loop(cs, p, mask) ==
    IF cs = <<>> THEN mask
    ELSE mask_loop(Tail(cs), p,
                   mask /\ OutsideMask(p[1] - Head(cs)[2], p[2] - Head(cs)[3]))

\* The mask of np.ma.masked_where(~mask, .), applied alike to Ex, Ey and V.
compute_field(cs) ==
    LET mask == [p \in Grid |-> mask_loop(cs, p, TRUE)]
    IN  [Ex |-> mask, Ey |-> mask, V |-> mask]

----------------------------------------------------------------------------
(* plot_field (lines 88-147) *)

Abs(n) == IF n < 0 THEN -n ELSE n

\* Faulty variant of num_field_lines: int(charge[0] * 16), the abs left out.
num_field_lines_signed(q) == (q * 16) \div One

\* int(abs(charge[0]) * 16)
num_field_lines(q) == (Abs(q) * 16) \div One

\* One start point: the centre and the angle 2*pi*i/n, as <<cx, cy, i, n>>.
RECURSIVE circle_points(_, _, _, _)
circle_points(cx, cy, i, n) ==
    IF i >= n THEN <<>>
    ELSE <<<<cx, cy, i, n>>>> \o circle_points(cx, cy, i + 1, n)

RECURSIVE start_points_of(_)
start_points_of(cs) ==
    IF cs = <<>> THEN <<>>
    ELSE circle_points(Head(cs)[2], Head(cs)[3], 0, num_field_lines(Head(cs)[1]))
         \o start_points_of(Tail(cs))

\* 'r' if q > 0 else 'b'
patch_color(q) == IF q > 0 THEN "r" ELSE "b"

patches_of(cs) ==
    [i \in 1..Len(cs) |-> <<cs[i][2], cs[i][3], patch_color(cs[i][1])>>]

streamplot_drawn(sfl, start_points) == sfl /\ Len(start_points) > 0

plot_field(cs, sfl, sel, sem) ==
    LET start_points == start_points_of(cs)
    IN  [charges |-> cs,
         flags |-> <<sfl, sel, sem>>,
         field |-> compute_field(cs),
         start_points |-> start_points,
         streamplot |-> streamplot_drawn(sfl, start_points),
         contour |-> sel,
         imshow |-> sem,
         patches |-> patches_of(cs)]

----------------------------------------------------------------------------
(* onclick (lines 38-63) *)

near(charge, x, y) ==
    hypot2(x - charge[2], y - charge[3]) < HitRadius * HitRadius

\* Faulty variant of first_near: the loop runs over the list in reverse and
\* stops at the highest index within the hit radius.
last_near(cs, x, y, i) ==
    LET S == {j \in i..Len(cs) : near(cs[j], x, y)}
    IN  IF S = {} THEN 0 ELSE CHOOSE m \in S : \A n \in S : n <= m

\* The index at which the for loop of lines 42-44 first finds a charge
\* within the hit radius, scanning from index i; 0 when it finds none.
RECURSIVE first_near(_, _, _, _)
first_near(cs, x, y, i) ==
    IF i > Len(cs) THEN 0
    ELSE IF near(cs[i], x, y) THEN i
    ELSE first_near(cs, x, y, i + 1)

\* Faulty variant of del_at: del charges[i - 1], which for the first index
\* is del charges[-1], the last entry.
del_at_before(cs, i) ==
    LET k == IF i = 1 THEN Len(cs) ELSE i - 1
    IN  SubSeq(cs, 1, k - 1) \o SubSeq(cs, k + 1, Len(cs))

\* del charges[i]
del_at(cs, i) == SubSeq(cs, 1, i - 1) \o SubSeq(cs, i + 1, Len(cs))

\* Faulty variant of near_branch: line 49 without its test of event.key.
near_branch_any_key(e) ==
    IF e.button = 3 THEN "delete"
    ELSE IF e.button = 1 THEN "modify"
    ELSE "fall_through"

\* Lines 45 and 49: what a click on a charge does.
near_branch(e) ==
    IF e.button = 3 THEN "delete"
    ELSE IF e.button = 1 /\ e.key = "shift" THEN "modify"
    ELSE "fall_through"

\* Faulty variant of new_charge: the else branch adds a charge of 0.
new_charge_zero_default(button) ==
    IF button = 1 THEN <<One>>
    ELSE IF button = 3 THEN <<-One>>
    ELSE <<0>>

\* Lines 54-60: the magnitude of the charge to add, None for no charge.
new_charge(button) ==
    IF button = 1 THEN <<One>>
    ELSE IF button = 3 THEN <<-One>>
    ELSE None

\* Faulty variant of set_charge: the edited charge is appended.
set_charge_appended(cs, index, new_q) ==
    IF new_q # None
    THEN Append(cs, <<new_q[1], cs[index][2], cs[index][3]>>)
    ELSE cs

\* Lines 161-162 of modify_charge_dialog.
set_charge(cs, index, new_q) ==
    IF new_q # None
    THEN [cs EXCEPT ![index] = <<new_q[1], cs[index][2], cs[index][3]>>]
    ELSE cs

\* Faulty variant of Replot: the plot_field call left out.
Replot_without_plot(cs, n) ==
    /\ charges' = cs
    /\ plots' = 0
    /\ UNCHANGED figure

\* A callback that ends in one plot_field run on the charge list cs.
Replot(cs, n) ==
    /\ charges' = cs
    /\ figure' = plot_field(cs, show_field_lines, show_equipotential_lines,
                            show_equipotential_map)
    /\ plots' = n

\* A callback that returns without touching anything.
Return ==
    /\ plots' = 0
    /\ UNCHANGED <<charges, figure>>

onclick(e) ==
    /\ event' = e
    /\ UNCHANGED flags
    /\ IF ~e.inaxes THEN dialog' = NoDialog /\ Return
       ELSE LET i == first_near(charges, e.xdata, e.ydata, 1)
                hit == IF i = 0 THEN "fall_through" ELSE near_branch(e)
                q == new_charge(e.button)
            IN  \/ /\ hit = "delete"
                   /\ dialog' = NoDialog
                   /\ Replot(del_at(charges, i), 1)
                \/ /\ hit = "modify"
                   /\ \E new_q \in AskFloatResults :
                        /\ dialog' = [index |-> i, new_q |-> new_q]
                        /\ Replot(set_charge(charges, i, new_q), 1)
                \/ /\ hit = "fall_through"
                   /\ q # None
                   /\ Len(charges) < MaxCharges
                   /\ dialog' = NoDialog
                   /\ Replot(Append(charges, <<q[1], e.xdata, e.ydata>>), 1)
                \/ /\ hit = "fall_through"
                   /\ q = None
                   /\ dialog' = NoDialog
                   /\ Return

----------------------------------------------------------------------------
(* onkeypress and clear_charges (lines 66-85) *)

\* Faulty variant of toggle: the flag is set, not negated.
toggle_sets(flag) == TRUE

toggle(flag) == ~flag

\* Faulty variant of clear_charges: without the global statement the
\* assignment binds a local name and the list stays.
clear_charges_local == charges

\* charges = []
clear_charges == <<>>

\* Line 73 runs clear_charges, which plots (line 85); line 79 plots again.
\* Key 's': line 78 reads the undefined name field_save, the NameError ends
\* the callback before line 79 and the event loop reports it and goes on.
onkeypress(e) ==
    /\ event' = e
    /\ dialog' = NoDialog
    /\ show_field_lines' =
          IF e.key = "1" THEN toggle(show_field_lines) ELSE show_field_lines
    /\ show_equipotential_lines' =
          IF e.key = "2" THEN toggle(show_equipotential_lines)
          ELSE show_equipotential_lines
    /\ show_equipotential_map' =
          IF e.key = "3" THEN toggle(show_equipotential_map)
          ELSE show_equipotential_map
    /\ charges' = IF e.key = "c" THEN clear_charges ELSE charges
    /\ IF e.key = "s"
       THEN /\ plots' = 0
            /\ figure' = figure
       ELSE /\ plots' = IF e.key = "c" THEN 2 ELSE 1
            /\ figure' = plot_field(charges', show_field_lines',
                                    show_equipotential_lines',
                                    show_equipotential_map')

----------------------------------------------------------------------------
(* The program: lines 9-11, 167 and 181, then the event loop of line 184 *)

Init ==
    /\ charges = <<>>
    /\ show_field_lines = TRUE
    /\ show_equipotential_lines = TRUE
    /\ show_equipotential_map = FALSE
    /\ event = [name |-> "none"]
    /\ dialog = NoDialog
    /\ figure = plot_field(<<>>, TRUE, TRUE, FALSE)
    /\ plots = 1

Next ==
    \/ \E e \in ClickEvents : onclick(e)
    \/ \E e \in KeyEvents : onkeypress(e)

Spec == Init /\ [][Next]_vars

----------------------------------------------------------------------------
(* Vocabulary of the properties, stated apart from the operators above *)

\* e is a click inside the axes with button b.
ClickIn(e, b) == e.name = "button_press_event" /\ e.inaxes /\ e.button = b

KeyPress(e, k) == e.name = "key_press_event" /\ e.key = k

\* The charge c lies at Euclidean distance strictly below 0.3 of (x, y).
Within03(c, x, y) ==
    (x - c[2]) * (x - c[2]) + (y - c[3]) * (y - c[3]) < 900

NearIndices(cs, x, y) == {i \in 1..Len(cs) : Within03(cs[i], x, y)}

Lowest(S) == CHOOSE m \in S : \A n \in S : m <= n

\* floor(16 * |q|) for a magnitude q of the model: the n with
\* n <= 16 * |q| / One < n + 1.
Floor16Abs(q) ==
    LET a == IF q < 0 THEN -q ELSE q
    IN  CHOOSE n \in 0..(16 * a) : n * One <= 16 * a /\ 16 * a < (n + 1) * One

RECURSIVE SumFloor16Abs(_, _)
SumFloor16Abs(cs, S) ==
    IF S = {} THEN 0
    ELSE LET i == CHOOSE j \in S : TRUE
         IN  Floor16Abs(cs[i][1]) + SumFloor16Abs(cs, S \ {i})

----------------------------------------------------------------------------
(* C1 *)

\* C1 as claimed: a left click without shift, inside the axes and within 0.3
\* of at least one charge, leaves the charge list exactly as it was.
C1_PlainClickOnChargeIsNoOp ==
    [][(/\ ClickIn(event', 1)
        /\ event'.key # "shift"
        /\ NearIndices(charges, event'.xdata, event'.ydata) # {})
       => charges' = charges]_vars

\* C1 as amended: such a click falls through the loop of lines 42-51 to the
\* add branch; it appends (+1, x, y) as the last entry and leaves every
\* existing entry in place.
C1_PlainClickOnChargeAppends ==
    [][(/\ ClickIn(event', 1)
        /\ event'.key # "shift"
        /\ NearIndices(charges, event'.xdata, event'.ydata) # {})
       => charges' = Append(charges, <<One, event'.xdata, event'.ydata>>)]_vars

\* A left click without shift was handled, and the list now ends with the
\* +1 charge at the click position after an older charge within 0.3 of it.
C1_Witness ==
    /\ ClickIn(event, 1)
    /\ event.key # "shift"
    /\ Len(charges) >= 2
    /\ charges[Len(charges)] = <<One, event.xdata, event.ydata>>
    /\ \E i \in 1..(Len(charges) - 1) :
          Within03(charges[i], event.xdata, event.ydata)

----------------------------------------------------------------------------
(* C2 *)

\* C2: a right click inside the axes within 0.3 of one or more charges
\* removes exactly the lowest-index charge among those within 0.3; the
\* charges before it stay, the ones after it move down by one index with
\* their values, and nothing is added.
C2_RightClickRemovesLowestNear ==
    [][(/\ ClickIn(event', 3)
        /\ NearIndices(charges, event'.xdata, event'.ydata) # {})
       => LET m == Lowest(NearIndices(charges, event'.xdata, event'.ydata))
          IN  /\ Len(charges') = Len(charges) - 1
              /\ \A j \in 1..(m - 1) : charges'[j] = charges[j]
              /\ \A j \in m..Len(charges') : charges'[j] = charges[j + 1]]_vars

\* A right click was handled by removing a charge while another charge
\* within 0.3 of the click stayed (a charge added by a right click would be
\* (-1, x, y) and the only one within 0.3).
C2_Witness ==
    /\ ClickIn(event, 3)
    /\ \E i \in 1..Len(charges) :
          /\ Within03(charges[i], event.xdata, event.ydata)
          /\ charges[i] # <<-One, event.xdata, event.ydata>>

----------------------------------------------------------------------------
(* C3 *)

\* C3: a left click at a point p inside the axes that is not within 0.3 of
\* any charge of the list L yields L with (+1, p) appended last; and when the
\* callback just handled was that left click (the list is L followed by
\* (+1, p), no charge of L within 0.3 of p), a right click at the same p
\* gives back exactly L.
C3_AddThenRemoveRestores ==
    [][/\ (/\ ClickIn(event', 1)
           /\ NearIndices(charges, event'.xdata, event'.ydata) = {})
          => charges' = Append(charges, <<One, event'.xdata, event'.ydata>>)
       /\ (/\ ClickIn(event, 1)
           /\ ClickIn(event', 3)
           /\ event'.xdata = event.xdata
           /\ event'.ydata = event.ydata
           /\ Len(charges) >= 1
           /\ charges[Len(charges)] = <<One, event.xdata, event.ydata>>
           /\ NearIndices(SubSeq(charges, 1, Len(charges) - 1),
                          event.xdata, event.ydata) = {})
          => charges' = SubSeq(charges, 1, Len(charges) - 1)]_vars

\* The right click of a round trip was handled: it removed the only charge
\* within 0.3 of the click and left a non-empty list L with none near it.
C3_Witness ==
    /\ ClickIn(event, 3)
    /\ plots = 1
    /\ Len(charges) >= 1
    /\ NearIndices(charges, event.xdata, event.ydata) = {}

----------------------------------------------------------------------------
(* C4 *)

\* C4: the figure last drawn by plot_field was drawn from the current charge
\* list and the current three flags, in every state between two callbacks;
\* and a callback that changes the charge list or a flag runs plot_field.
C4_RenderFollowsEveryMutation ==
    /\ [](/\ figure.charges = charges
          /\ figure.flags = flags)
    /\ [][(charges' # charges \/ flags' # flags) => plots' >= 1]_vars

\* A confirmed magnitude edit changed the list while the heat map was on,
\* and the figure shows the edited list.
C4_Witness ==
    /\ dialog.index # 0
    /\ dialog.new_q # None
    /\ show_equipotential_map
    /\ plots = 1
    /\ figure.charges = charges
    /\ figure.charges[dialog.index][1] = dialog.new_q[1]

----------------------------------------------------------------------------
(* C5 *)

\* C5 as claimed: every charge of the list has a nonzero magnitude.
C5_MagnitudeNeverZero ==
    \A i \in 1..Len(charges) : charges[i][1] # 0

\* C5 as amended: a charge of magnitude zero is in the list after a callback
\* only if it was there before, or if this callback's magnitude prompt was
\* confirmed with 0 for it; clicks add charges of magnitude +1 or -1 only.
C5_ZeroOnlyByConfirmedEdit ==
    [][\A i \in 1..Len(charges') :
          charges'[i][1] = 0
          => \/ dialog'.index = i /\ dialog'.new_q = <<0>>
             \/ \E j \in 1..Len(charges) : charges[j] = charges'[i]]_vars

\* The prompt was confirmed with 0 and the edited charge has magnitude 0.
C5_Witness ==
    /\ dialog.index # 0
    /\ dialog.new_q = <<0>>
    /\ charges[dialog.index][1] = 0

----------------------------------------------------------------------------
(* C6 *)

\* C6: a shift + left click inside the axes within 0.3 of a charge opens the
\* prompt for the lowest-index charge within 0.3; a number replaces that
\* charge's magnitude only (position, index, length and all other charges as
\* before); a cancelled prompt leaves the list as it was; the length never
\* changes.
C6_EditReplacesMagnitudeInPlace ==
    [][(/\ ClickIn(event', 1)
        /\ event'.key = "shift"
        /\ NearIndices(charges, event'.xdata, event'.ydata) # {})
       => LET m == Lowest(NearIndices(charges, event'.xdata, event'.ydata))
          IN  /\ dialog'.index = m
              /\ Len(charges') = Len(charges)
              /\ \A j \in 1..Len(charges) : j # m => charges'[j] = charges[j]
              /\ charges'[m][2] = charges[m][2]
              /\ charges'[m][3] = charges[m][3]
              /\ dialog'.new_q # None => charges'[m][1] = dialog'.new_q[1]
              /\ dialog'.new_q = None => charges'[m][1] = charges[m][1]]_vars

\* A prompt was confirmed for the lower-index one of two charges within 0.3
\* of the click, and that charge carries the number entered.
C6_Witness ==
    /\ ClickIn(event, 1)
    /\ event.key = "shift"
    /\ dialog.index # 0
    /\ dialog.new_q # None
    /\ charges[dialog.index][1] = dialog.new_q[1]
    /\ \E j \in (dialog.index + 1)..Len(charges) :
          Within03(charges[j], event.xdata, event.ydata)

----------------------------------------------------------------------------
(* C7 *)

----------------------------------------------------------------------------
(* C8 *)

\* C8: key "c" leaves the charge list empty and the three flags as they
\* were, and the figure drawn for it has no charge marker.
C8_ClearEmptiesListAndMarkers ==
    [][KeyPress(event', "c")
       => /\ charges' = <<>>
          /\ flags' = flags
          /\ plots' >= 1
          /\ Len(figure'.patches) = 0]_vars

\* Key "c" was handled with non-default flags; list and markers are empty.
C8_Witness ==
    /\ KeyPress(event, "c")
    /\ charges = <<>>
    /\ figure.patches = <<>>
    /\ show_equipotential_map
    /\ ~show_equipotential_lines

----------------------------------------------------------------------------
(* C9 *)

----------------------------------------------------------------------------
(* C10 *)

\* C10: in every figure the start points around a centre number the sum of
\* floor(16 * |m|) over the charges at that centre, so the total is the sum
\* over the whole list (0 for the empty list); and the field-line layer is
\* traced exactly when field-lines visibility is on and the total is >= 1.
C10_SeedCountIsFloor16Abs ==
    /\ \A c \in {<<ch[2], ch[3]>> : ch \in {figure.charges[i] :
                                            i \in 1..Len(figure.charges)}} :
          Cardinality({k \in 1..Len(figure.start_points) :
                          /\ figure.start_points[k][1] = c[1]
                          /\ figure.start_points[k][2] = c[2]})
          = SumFloor16Abs(figure.charges,
                          {i \in 1..Len(figure.charges) :
                              /\ figure.charges[i][2] = c[1]
                              /\ figure.charges[i][3] = c[2]})
    /\ Len(figure.start_points)
       = SumFloor16Abs(figure.charges, 1..Len(figure.charges))
    /\ figure.streamplot
       <=> /\ figure.flags[1]
           /\ SumFloor16Abs(figure.charges, 1..Len(figure.charges)) >= 1

\* A figure of a charge of magnitude -3/32 (one start point: 16 * |m| = 1.5)
\* and a charge of magnitude 0 (no start point), with the field lines traced.
C10_Witness ==
    /\ Len(figure.charges) = 2
    /\ \E i, j \in 1..2 : figure.charges[i][1] = -3 /\ figure.charges[j][1] = 0
    /\ Len(figure.start_points) = 1
    /\ figure.streamplot

====
